---- MODULE Spec2Model ----
(***************************************************************************)
(* A model of scripts/arlington-to-vscode.py: the conversion of an         *)
(* Arlington PDF Model "pandas.tsv" table into the JSON file used for      *)
(* VSCode Code Completion.                                                 *)
(*                                                                         *)
(* Python strings are modelled character by character: a string is a       *)
(* sequence of one-character strings, so that len(), ==, the "in" test and *)
(* re.sub() are computed as Python computes them.  The back-quote          *)
(* character, which a TLA+ string cannot hold, is the element "bq".        *)
(***************************************************************************)
EXTENDS Integers, Sequences, FiniteSets, TLC

VARIABLES
    pc,        \* position of the Python process
    fsKind,    \* what the input path names: "file", "dir" or "missing"
    tsv,       \* content of the input file: [header, lines]
    df,        \* the DataFrame of ArlingtonToTS: [loaded, columns, rows]
    rowCount,  \* the module global rowCount
    stdout,    \* the messages printed so far
    outFile,   \* the JSON output file: [written, records]
    exc,       \* the exception that is propagating, or NoExc
    row,       \* the argument of a direct call of a row function
    ret,       \* what that call returned: [returned, value]
    issued,    \* every value CreateVSCodeCompletionData has returned, in order
    entries    \* per invocation of ArlingtonToTS: rowCount at its entry and ids issued before

vars == <<pc, fsKind, tsv, df, rowCount, stdout, outFile, exc, row, ret, issued, entries>>

NoExc == "NoExc"

----------------------------------------------------------------------------
(* String literals of the script. *)

EmptyStr == <<>>
TrueStr == <<"T","R","U","E">>
FalseStr == <<"F","A","L","S","E">>
BackQuote == <<"bq">>
Semicolon == <<";">>
QuotedSemicolon == <<"bq",";","bq">>
OpenParen == <<"bq"," ","_","(">>
PdfPrefix == <<"P","D","F"," ">>
RequiredText == <<";"," ","R","e","q","u","i","r","e","d">>
OptionalText == <<";"," ","O","p","t","i","o","n","a","l">>
DeprecatedText == <<";"," ","D","e","p","r","e","c","a","t","e","d"," ","i","n"," ","P","D","F"," ">>
CloseParen == <<")","_">>
IndirectText == <<" ","M","u","s","t"," ","b","e"," ","i","n","d","i","r","e","c","t"," ","r","e","f","e","r","e","n","c","e",".">>
EmptyParens == <<"_","(",")","_">>
StraySeparator == <<"_","(",";"," ">>
ParenStart == <<"_","(">>
ArrayStr == <<"A","r","r","a","y">>
ColorSpaceStr == <<"C","o","l","o","r","S","p","a","c","e">>

(* Sample cell texts. *)
CatalogStr == <<"C","a","t","a","l","o","g">>
ArrayOfAnnotsStr == <<"A","r","r","a","y","O","f","A","n","n","o","t","s">>
CalRGBColorSpaceStr == <<"C","a","l","R","G","B","C","o","l","o","r","S","p","a","c","e">>
PageStr == <<"P","a","g","e">>
IntegerStr == <<"i","n","t","e","g","e","r">>
ArrayBooleanStr == <<"a","r","r","a","y",";","b","o","o","l","e","a","n">>
Version12 == <<"1",".","2">>
Version14 == <<"1",".","4">>

----------------------------------------------------------------------------
(* Python string primitives. *)

\* sub in s (equally: s.find(sub) != -1)
Contains(sub, s) ==
    \E i \in 1..(Len(s) - Len(sub) + 1) : SubSeq(s, i, i + Len(sub) - 1) = sub

\* re.sub(pat, repl, s) for a pattern that matches the literal text pat:
\* the leftmost non-overlapping matches are replaced in one left-to-right
\* scan, and replaced text is not scanned again.
RECURSIVE ReSub(_, _, _)
ReSub(pat, repl, s) ==
    IF Len(s) < Len(pat) THEN s
    ELSE IF SubSeq(s, 1, Len(pat)) = pat
         THEN repl \o ReSub(pat, repl, SubSeq(s, Len(pat) + 1, Len(s)))
         ELSE <<Head(s)>> \o ReSub(pat, repl, Tail(s))

----------------------------------------------------------------------------
(* CreateVSCodeCompletionDocumentation(row) *)

DocTypePart(r) == ReSub(Semicolon, QuotedSemicolon, BackQuote \o r.Type \o OpenParen)

\* the version kept whenever it is not empty
DocSincePart_AnyLength(r) ==
    IF r.SinceVersion # EmptyStr THEN PdfPrefix \o r.SinceVersion ELSE EmptyStr

DocSincePart(r) == IF Len(r.SinceVersion) = 3 THEN PdfPrefix \o r.SinceVersion ELSE EmptyStr

DocRequiredPart(r) ==
    IF r.Required = TrueStr THEN RequiredText
    ELSE IF r.Required = FalseStr THEN OptionalText
    ELSE EmptyStr

DocDeprecatedPart(r) ==
    IF r.DeprecatedIn # EmptyStr THEN DeprecatedText \o r.DeprecatedIn ELSE EmptyStr

DocIndirectPart(r) == IF r.IndirectReference = TrueStr THEN IndirectText ELSE EmptyStr

\* the string s before the two tidy-up substitutions
DocUntidied(r) ==
    DocTypePart(r) \o DocSincePart(r) \o DocRequiredPart(r) \o DocDeprecatedPart(r)
        \o CloseParen \o DocIndirectPart(r)

\* the tidy-up without its second substitution
DocTidy_NoCollapse(s) == ReSub(EmptyParens, EmptyStr, s)

DocTidy(s) == ReSub(StraySeparator, ParenStart, ReSub(EmptyParens, EmptyStr, s))

CreateVSCodeCompletionDocumentation(r) == DocTidy(DocUntidied(r))

----------------------------------------------------------------------------
(* The input table.  A file is a header line and data lines of            *)
(* tab-separated cells; the columns are those named at read_csv.          *)

MaxRows == 3

FullHeader ==
    <<"Object", "Key", "Type", "SinceVersion", "DeprecatedIn", "Required",
      "IndirectReference", "Inheritable", "DefaultValue", "PossibleValues",
      "SpecialCase", "Link", "Note">>

NoNoteHeader == SubSeq(FullHeader, 1, 12)

Line(object, type, since, deprecated, required, indirect) ==
    <<object, <<"K">>, type, since, deprecated, required, indirect,
      FalseStr, EmptyStr, EmptyStr, EmptyStr, <<"7",".","1">>, <<"n">>>>

SampleLines ==
    { Line(CatalogStr, IntegerStr, EmptyStr, EmptyStr, FalseStr, EmptyStr),
      Line(ArrayOfAnnotsStr, ArrayBooleanStr, Version12, Version14, TrueStr, TrueStr),
      Line(CalRGBColorSpaceStr, IntegerStr, Version12, EmptyStr, TrueStr, EmptyStr),
      Line(PageStr, ArrayBooleanStr, Version12, Version14, TrueStr, TrueStr) }

RECURSIVE SeqsUpTo(_, _)
SeqsUpTo(S, n) ==
    IF n = 0 THEN {<<>>}
    ELSE LET shorter == SeqsUpTo(S, n - 1)
         IN  shorter \cup {Append(t, x) : t \in shorter, x \in S}

\* the files the input path can name
TsvFiles ==
    {[header |-> FullHeader, lines |-> ls] : ls \in SeqsUpTo(SampleLines, MaxRows)}
        \cup {[header |-> NoNoteHeader, lines |-> <<SubSeq(l, 1, 12)>>] : l \in SampleLines}
        \cup {[header |-> <<>>, lines |-> <<>>]}

NoTsv == [header |-> <<>>, lines |-> <<>>]
NoFrame == [loaded |-> FALSE, columns |-> <<>>, rows |-> <<>>]
NotWritten == [written |-> FALSE, records |-> <<>>]
NoValue == [returned |-> FALSE, value |-> <<>>]
NoRow == [Type |-> EmptyStr, SinceVersion |-> EmptyStr, Required |-> EmptyStr,
          DeprecatedIn |-> EmptyStr, IndirectReference |-> EmptyStr]

Range(f) == {f[i] : i \in DOMAIN f}

IndexOf(seq, x) == CHOOSE i \in DOMAIN seq : seq[i] = x

----------------------------------------------------------------------------
(* CreateVSCodeCompletionData(row) *)

\* the increment left out
NewRowCount_NoIncrement(rc) == rc

\* rowCount = rowCount + 1
NewRowCount(rc) == rc + 1

\* return rowCount - 1
ReturnedId(rc) == rc - 1

----------------------------------------------------------------------------
(* ArlingtonToTS(pandas_fname, json_fname) *)

\* pd.read_csv(..., delimiter='\t', na_filter=False, dtype=string columns):
\* one row per data line, each cell kept as the text it is under the
\* column its header position names
ReadCsvRows(t) ==
    [i \in DOMAIN t.lines |-> [c \in Range(t.header) |-> t.lines[i][IndexOf(t.header, c)]]]

ReadCsvError(kind, t) ==
    IF kind = "missing" THEN "FileNotFoundError"
    ELSE IF kind = "dir" THEN "IsADirectoryError"
    ELSE IF t.header = <<>> THEN "EmptyDataError"
    ELSE NoExc

ReadCsv ==
    /\ pc = "read_csv"
    /\ IF ReadCsvError(fsKind, tsv) # NoExc
       THEN /\ exc' = ReadCsvError(fsKind, tsv)
            /\ pc' = "raised"
            /\ UNCHANGED df
       ELSE /\ df' = [loaded |-> TRUE, columns |-> tsv.header, rows |-> ReadCsvRows(tsv)]
            /\ pc' = "drop_note"
            /\ UNCHANGED exc
    /\ UNCHANGED <<fsKind, tsv, rowCount, stdout, outFile, row, ret, issued, entries>>

\* df.drop(columns='Note') on the rows and on the column list
DropColumn(frame, col) ==
    [loaded |-> TRUE,
     columns |-> SelectSeq(frame.columns, LAMBDA c : c # col),
     rows |-> [i \in DOMAIN frame.rows |->
                 [c \in (DOMAIN frame.rows[i]) \ {col} |-> frame.rows[i][c]]]]

DropNote ==
    /\ pc = "drop_note"
    /\ IF "Note" \in Range(df.columns)
       THEN /\ df' = DropColumn(df, "Note")
            /\ pc' = "filter_array"
            /\ UNCHANGED exc
       ELSE /\ exc' = "KeyError"
            /\ pc' = "raised"
            /\ UNCHANGED df
    /\ UNCHANGED <<fsKind, tsv, rowCount, stdout, outFile, row, ret, issued, entries>>

\* df["Object"].find("Array"): df["Object"] is a pandas Series, and a Series
\* has no attribute find (the string methods are under Series.str), so the
\* attribute lookup raises AttributeError whatever the rows are, before
\* anything is compared or dropped.
SeriesHasAttribute(name) == name \in {"str", "index", "apply", "drop"}

FilterArray ==
    /\ pc = "filter_array"
    /\ ~SeriesHasAttribute("find")
    /\ exc' = "AttributeError"
    /\ pc' = "raised"
    /\ UNCHANGED <<fsKind, tsv, df, rowCount, stdout, outFile, row, ret, issued, entries>>

\* the function is entered: nothing in it assigns rowCount
EnterArlingtonToTS ==
    /\ pc' = "read_csv"
    /\ df' = NoFrame
    /\ exc' = NoExc
    /\ entries' = Append(entries, [count |-> rowCount, before |-> Len(issued)])
    /\ UNCHANGED <<rowCount, outFile, issued>>

----------------------------------------------------------------------------
(* The script run as a program: the __main__ block. *)

\* os.path.exists in place of os.path.isfile
PathRejected_NotExists(kind) == kind = "missing"

\* (cli.pandasTSV is None) or not os.path.isfile(cli.pandasTSV); the option
\* has a default, so it is never None
PathRejected(kind) == kind # "file"

MainReject ==
    /\ pc = "main"
    /\ PathRejected(fsKind)
    /\ stdout' = stdout \o <<"is not a valid file", "usage">>
    /\ pc' = "exit"
    /\ UNCHANGED <<fsKind, tsv, df, rowCount, outFile, exc, row, ret, issued, entries>>

MainLoading ==
    /\ pc = "main"
    /\ ~PathRejected(fsKind)
    /\ stdout' = Append(stdout, "Loading from")
    /\ EnterArlingtonToTS
    /\ UNCHANGED <<fsKind, tsv, row, ret>>

Init ==
    /\ pc = "main"
    /\ \/ fsKind = "file" /\ tsv \in TsvFiles
       \/ fsKind \in {"dir", "missing"} /\ tsv = NoTsv
    /\ df = NoFrame
    /\ rowCount = 1
    /\ stdout = <<>>
    /\ outFile = NotWritten
    /\ exc = NoExc
    /\ row = NoRow
    /\ ret = NoValue
    /\ issued = <<>>
    /\ entries = <<>>

Next ==
    \/ MainReject
    \/ MainLoading
    \/ ReadCsv
    \/ DropNote
    \/ FilterArray

Spec == Init /\ [][Next]_vars

Terminated == pc \in {"exit", "raised"}

----------------------------------------------------------------------------
(* The row functions called directly, one call per behaviour, on rows    *)
(* whose fields are sample cell texts or are put together from the       *)
(* fragments the tidy-up patterns are made of.                           *)

MaxTypeFrags == 1
MaxDepFrags == 2

Fragments == {<<"_","(">>, <<")","_">>, <<";"," ">>, <<"_">>}

RECURSIVE FragStrings(_)
FragStrings(n) ==
    IF n = 0 THEN {EmptyStr}
    ELSE LET shorter == FragStrings(n - 1)
         IN  shorter \cup {t \o f : t \in shorter, f \in Fragments}

DocRows ==
    [Type : {IntegerStr, ArrayBooleanStr} \cup FragStrings(MaxTypeFrags),
     SinceVersion : {EmptyStr, Version12, <<"1","2">>, <<"a","_","(">>},
     Required : {TrueStr, FalseStr, EmptyStr, <<"t","r","u","e">>},
     DeprecatedIn : {Version14} \cup FragStrings(MaxDepFrags),
     IndirectReference : {TrueStr, EmptyStr}]

CallDocumentation ==
    /\ pc = "call_documentation"
    /\ ret' = [returned |-> TRUE, value |-> CreateVSCodeCompletionDocumentation(row)]
    /\ pc' = "returned"
    /\ UNCHANGED <<fsKind, tsv, df, rowCount, stdout, outFile, exc, row, issued, entries>>

InitDoc ==
    /\ pc = "call_documentation"
    /\ row \in DocRows
    /\ ret = NoValue
    /\ fsKind = "missing"
    /\ tsv = NoTsv
    /\ df = NoFrame
    /\ rowCount = 1
    /\ stdout = <<>>
    /\ outFile = NotWritten
    /\ exc = NoExc
    /\ issued = <<>>
    /\ entries = <<>>

NextDoc == CallDocumentation

SpecDoc == InitDoc /\ [][NextDoc]_vars

----------------------------------------------------------------------------
(* The module imported and its functions called in one process: any      *)
(* number of ArlingtonToTS runs and CreateVSCodeCompletionData calls,     *)
(* an exception of a run being left to the caller.                       *)

MaxIds == 3
MaxRuns == 2

LibFiles == {t \in TsvFiles : Len(t.lines) <= 1}

LibCreateData ==
    /\ pc \in {"idle", "raised"}
    /\ Len(issued) < MaxIds
    /\ rowCount' = NewRowCount(rowCount)
    /\ issued' = Append(issued, ReturnedId(rowCount'))
    /\ UNCHANGED <<pc, fsKind, tsv, df, stdout, outFile, exc, row, ret, entries>>

LibArlingtonToTS ==
    /\ pc \in {"idle", "raised"}
    /\ Len(entries) < MaxRuns
    /\ \/ fsKind' = "file" /\ tsv' \in LibFiles
       \/ fsKind' \in {"dir", "missing"} /\ tsv' = NoTsv
    /\ EnterArlingtonToTS
    /\ UNCHANGED <<stdout, row, ret>>

InitLib ==
    /\ pc = "idle"
    /\ fsKind = "missing"
    /\ tsv = NoTsv
    /\ df = NoFrame
    /\ rowCount = 1
    /\ stdout = <<>>
    /\ outFile = NotWritten
    /\ exc = NoExc
    /\ row = NoRow
    /\ ret = NoValue
    /\ issued = <<>>
    /\ entries = <<>>

NextLib ==
    \/ LibCreateData
    \/ LibArlingtonToTS
    \/ ReadCsv
    \/ DropNote
    \/ FilterArray

SpecLib == InitLib /\ [][NextLib]_vars

----------------------------------------------------------------------------
(* What the claims speak of. *)

\* a run of the script on a readable table with the full header has ended
RunOnTableEnded == Terminated /\ fsKind = "file" /\ tsv.header = FullHeader

\* the Object text has neither "Array" nor "ColorSpace" in it
Survives(line) == ~Contains(ArrayStr, line[1]) /\ ~Contains(ColorSpaceStr, line[1])

Survivors == SelectSeq(tsv.lines, Survives)

\* an output record carries the twelve retained cells of an input line
CarriesLine(rec, line) ==
    \A k \in 1..12 : FullHeader[k] \in DOMAIN rec /\ rec[FullHeader[k]] = line[k]

OutputKeys == (Range(FullHeader) \ {"Note"}) \cup {"Data", "Documentation"}

NoTidyPattern(s) == ~Contains(EmptyParens, s) /\ ~Contains(StraySeparator, s)

\* What the part of ArlingtonToTS that does run leaves behind.
DropNoteKeepsRows ==
    (pc = "filter_array" \/ (pc = "raised" /\ exc = "AttributeError")) =>
        /\ Len(df.rows) = Len(tsv.lines)
        /\ \A i \in DOMAIN df.rows :
             /\ DOMAIN df.rows[i] = Range(FullHeader) \ {"Note"}
             /\ CarriesLine(df.rows[i], tsv.lines[i])

RunWritesNothing == ~outFile.written /\ rowCount = 1 /\ issued = <<>>

RunOnTableRaises == RunOnTableEnded => exc = "AttributeError"

IssuedIdsCountUp == \A i \in DOMAIN issued : issued[i] = i

----------------------------------------------------------------------------
\* C1 (as stated): for every row, whatever its field texts, the string
\* CreateVSCodeCompletionDocumentation returns holds neither "_()_" nor "_(; ".
C1_AnyRowTidy == ret.returned => NoTidyPattern(ret.value)

\* C1 (amended): for every row whose Type and DeprecatedIn do not hold "_(",
\* the returned string holds neither "_()_" nor "_(; ".
C1_PlainRowTidy ==
    (/\ ret.returned
     /\ ~Contains(ParenStart, row.Type)
     /\ ~Contains(ParenStart, row.DeprecatedIn)) => NoTidyPattern(ret.value)

\* the tidy-up had a stray separator to collapse, on a row of the amended claim
C1_Witness ==
    /\ ret.returned
    /\ ~Contains(ParenStart, row.Type)
    /\ ~Contains(ParenStart, row.DeprecatedIn)
    /\ Contains(StraySeparator, DocUntidied(row))
    /\ NoTidyPattern(ret.value)

----------------------------------------------------------------------------
\* C2: the rows ArlingtonToTS writes are exactly the input rows whose Object
\* holds neither "Array" nor "ColorSpace": every such row is written and no
\* other row is.
C2_WrittenRowsAreSurvivors ==
    RunOnTableEnded =>
        \A i \in DOMAIN tsv.lines :
            Survives(tsv.lines[i]) <=>
                \E j \in DOMAIN outFile.records : CarriesLine(outFile.records[j], tsv.lines[i])

----------------------------------------------------------------------------
\* C3: the returned string is the one the listed steps build: the Type in
\* back-quotes with each ";" made "`;`", " _(", "PDF " and the version only
\* when it has three characters, "; Required" or "; Optional" by Required,
\* "; Deprecated in PDF " and DeprecatedIn when it is not empty, ")_", the
\* indirect-reference sentence, then "_()_" removed and "_(; " made "_(";
\* and the row of the example gives "`integer` _(Optional)_".
RECURSIVE C3_QuoteEach(_)
C3_QuoteEach(t) ==
    IF t = <<>> THEN <<>>
    ELSE (IF Head(t) = ";" THEN <<"bq", ";", "bq">> ELSE <<Head(t)>>) \o C3_QuoteEach(Tail(t))

RECURSIVE C3_Replace(_, _, _)
C3_Replace(pat, rep, s) ==
    IF ~Contains(pat, s) THEN s
    ELSE LET hits == {i \in 1..(Len(s) - Len(pat) + 1) : SubSeq(s, i, i + Len(pat) - 1) = pat}
             first == CHOOSE i \in hits : \A j \in hits : i <= j
         IN  SubSeq(s, 1, first - 1) \o rep
                 \o C3_Replace(pat, rep, SubSeq(s, first + Len(pat), Len(s)))

C3_Steps(r) ==
    LET s1 == <<"bq">> \o C3_QuoteEach(r.Type) \o <<"bq">>
        s2 == s1 \o <<" ", "_", "(">>
        s3 == IF Len(r.SinceVersion) = 3 THEN s2 \o <<"P","D","F"," ">> \o r.SinceVersion ELSE s2
        s4 == IF r.Required = <<"T","R","U","E">> THEN s3 \o <<";"," ","R","e","q","u","i","r","e","d">>
              ELSE IF r.Required = <<"F","A","L","S","E">> THEN s3 \o <<";"," ","O","p","t","i","o","n","a","l">>
              ELSE s3
        s5 == IF Len(r.DeprecatedIn) > 0 THEN s4 \o DeprecatedText \o r.DeprecatedIn ELSE s4
        s6 == s5 \o <<")", "_">>
        s7 == IF r.IndirectReference = <<"T","R","U","E">> THEN s6 \o IndirectText ELSE s6
        s8 == C3_Replace(<<"_","(",")","_">>, <<>>, s7)
    IN  C3_Replace(<<"_","(",";"," ">>, <<"_","(">>, s8)

C3_ExampleRow ==
    [Type |-> IntegerStr, SinceVersion |-> EmptyStr, Required |-> FalseStr,
     DeprecatedIn |-> EmptyStr, IndirectReference |-> EmptyStr]

C3_ExampleText ==
    <<"bq","i","n","t","e","g","e","r","bq"," ","_","(","O","p","t","i","o","n","a","l",")","_">>

\* C3: the call always returns, what it returns is the string of the listed
\* steps, and the example row gives the example text.
C3_DocumentationAsSpecified ==
    /\ pc = "returned" => ret.returned
    /\ ret.returned => ret.value = C3_Steps(row)
    /\ (ret.returned /\ row = C3_ExampleRow) => ret.value = C3_ExampleText

\* the call has returned for a row whose version text has two characters
\* and for which every later clause applies
C3_Witness ==
    /\ ret.returned
    /\ Len(row.SinceVersion) = 2
    /\ row.Required = FalseStr
    /\ row.DeprecatedIn = Version14
    /\ row.IndirectReference = TrueStr
    /\ row.Type = ArrayBooleanStr
    /\ ret.value = C3_Steps(row)

----------------------------------------------------------------------------
----------------------------------------------------------------------------
\* C5 (as stated): at the start of every invocation of ArlingtonToTS, a
\* second or later one in the same process included, the counter is 1.
C5_CounterOneAtEveryRun == \A i \in DOMAIN entries : entries[i].count = 1

\* C5 (amended): the counter is set to 1 once, when the module is loaded,
\* and no invocation of ArlingtonToTS resets it: at the start of an
\* invocation it is 1 plus the number of ids issued earlier in the process.
C5_CounterNeverReset ==
    /\ rowCount = 1 + Len(issued)
    /\ \A i \in DOMAIN entries : entries[i].count = 1 + entries[i].before

\* a second run of the process has started after ids were issued
C5_Witness ==
    /\ Len(entries) >= 2
    /\ entries[Len(entries)].before > 0
    /\ entries[Len(entries)].count > 1

----------------------------------------------------------------------------
----------------------------------------------------------------------------
\* C7: the stages run in the order load, drop Note, filter, assign ids, build
\* documentation, serialize, validate; "Done" is printed only after the
\* output was written and validated, and a run on a readable table ends
\* with "Done" printed.
C7_RunReachesDone ==
    /\ "Done" \in Range(stdout) => outFile.written
    /\ outFile.written => df.loaded /\ "Note" \notin Range(df.columns)
    /\ RunOnTableEnded => stdout = <<"Loading from", "Done">>

----------------------------------------------------------------------------
\* C8: when the input path is missing or is no regular file, the program
\* prints the message and the usage text and stops: the table is never
\* loaded, no output is written, the counter stays as it was and neither
\* "Loading from" nor "Done" is printed.
C8_RejectedPathStopsEarly ==
    fsKind # "file" =>
        /\ pc \in {"main", "exit"}
        /\ pc = "exit" => stdout = <<"is not a valid file", "usage">>
        /\ ~df.loaded
        /\ ~outFile.written
        /\ rowCount = 1
        /\ entries = <<>>
        /\ "Loading from" \notin Range(stdout)
        /\ "Done" \notin Range(stdout)

\* the program has stopped on a path that names a directory
C8_Witness ==
    /\ fsKind = "dir"
    /\ pc = "exit"
    /\ stdout = <<"is not a valid file", "usage">>

----------------------------------------------------------------------------
----------------------------------------------------------------------------
\* C10: ids are assigned after the filter, once per output row: with n
\* surviving rows the Data values of the output are 1, 2, ..., n in order.
C10_DataCountsSurvivors ==
    (RunOnTableEnded /\ Survivors # <<>>) =>
        /\ Len(outFile.records) = Len(Survivors)
        /\ \A i \in DOMAIN outFile.records : outFile.records[i].Data = i

====
